---------------------------- MODULE Spec2Model ----------------------------
(***************************************************************************)
(* RTLConverter (src/app.py): translation of a single-assignment          *)
(* arithmetic expression into register-transfer instructions.             *)
(*                                                                         *)
(* A Python str is the sequence of the code points of its characters      *)
(* (ord of each), so "a=1" is <<97, 61, 49>>; Text writes such a sequence  *)
(* from printable ASCII characters.  An instruction is such a sequence; a  *)
(* list of instructions is a sequence of them.  An error message is the    *)
(* sequence of its pieces: the literal text of the f-string followed by    *)
(* the code points of the formatted position.  The empty message "" is     *)
(* << >>.                                                                  *)
(***************************************************************************)
EXTENDS Integers, Sequences, FiniteSets, TLC

(***************************************************************************)
(* Bounds of the model.                                                    *)
(***************************************************************************)
MaxLen == 7

MaxTokLen == 5

MaxLongTyped == 5

(***************************************************************************)
(* Characters.  AsciiLow lists U+0020..U+005F and AsciiHigh lists         *)
(* U+0061..U+007E, in order.                                               *)
(***************************************************************************)
AsciiLow ==
    <<" ", "!", "\"", "#", "$", "%", "&", "'", "(", ")", "*", "+", ",", "-",
      ".", "/", "0", "1", "2", "3", "4", "5", "6", "7", "8", "9", ":", ";",
      "<", "=", ">", "?", "@", "A", "B", "C", "D", "E", "F", "G", "H", "I",
      "J", "K", "L", "M", "N", "O", "P", "Q", "R", "S", "T", "U", "V", "W",
      "X", "Y", "Z", "[", "\\", "]", "^", "_">>

AsciiHigh ==
    <<"a", "b", "c", "d", "e", "f", "g", "h", "i", "j", "k", "l", "m", "n",
      "o", "p", "q", "r", "s", "t", "u", "v", "w", "x", "y", "z", "{", "|",
      "}", "~">>

\* ord(c) of a printable ASCII character
Ord(c) ==
    IF \E k \in 1..Len(AsciiLow) : AsciiLow[k] = c
    THEN 31 + (CHOOSE k \in 1..Len(AsciiLow) : AsciiLow[k] = c)
    ELSE 96 + (CHOOSE k \in 1..Len(AsciiHigh) : AsciiHigh[k] = c)

\* the str whose characters are the one-character strings of s
Text(s) == [k \in 1..Len(s) |-> Ord(s[k])]

\* the characters of Text(s)
Chars(s) == {Ord(s[k]) : k \in 1..Len(s)}

Space == Ord(" ")
LineFeed == 10
Equals == Ord("=")
Underscore == Ord("_")
Plus == Ord("+")
Minus == Ord("-")

Ascii == 0..127

Zero == Ord("0")

AsciiDigits == Zero..(Zero + 9)

AsciiLetters == (Ord("a")..Ord("z")) \cup (Ord("A")..Ord("Z"))

\* the ASCII characters of str.isspace(): U+0009..U+000D, U+001C..U+0020
AsciiSpaces == (9..13) \cup (28..32)

AsciiWord == AsciiLetters \cup AsciiDigits \cup {Underscore}

\* [+\-*/]
OperatorChars == {Ord("+"), Ord("-"), Ord("*"), Ord("/")}

(***************************************************************************)
(* Character classes of Python 3.11 (Unicode 14.0), as inclusive ranges   *)
(* of code points.                                                         *)
(***************************************************************************)
\* str.isspace(): the characters str.strip() removes
SpaceRanges ==
    << <<9, 13>>, <<28, 32>>, <<133, 133>>, <<160, 160>>, <<5760, 5760>>,
      <<8192, 8202>>, <<8232, 8233>>, <<8239, 8239>>, <<8287, 8287>>,
      <<12288, 12288>> >>

\* \d of re, str.isdecimal(): the decimal digits (category Nd)
DecimalRanges ==
    << <<48, 57>>, <<1632, 1641>>, <<1776, 1785>>, <<1984, 1993>>,
      <<2406, 2415>>, <<2534, 2543>>, <<2662, 2671>>, <<2790, 2799>>,
      <<2918, 2927>>, <<3046, 3055>>, <<3174, 3183>>, <<3302, 3311>>,
      <<3430, 3439>>, <<3558, 3567>>, <<3664, 3673>>, <<3792, 3801>>,
      <<3872, 3881>>, <<4160, 4169>>, <<4240, 4249>>, <<6112, 6121>>,
      <<6160, 6169>>, <<6470, 6479>>, <<6608, 6617>>, <<6784, 6793>>,
      <<6800, 6809>>, <<6992, 7001>>, <<7088, 7097>>, <<7232, 7241>>,
      <<7248, 7257>>, <<42528, 42537>>, <<43216, 43225>>, <<43264, 43273>>,
      <<43472, 43481>>, <<43504, 43513>>, <<43600, 43609>>, <<44016, 44025>>,
      <<65296, 65305>>, <<66720, 66729>>, <<68912, 68921>>, <<69734, 69743>>,
      <<69872, 69881>>, <<69942, 69951>>, <<70096, 70105>>, <<70384, 70393>>,
      <<70736, 70745>>, <<70864, 70873>>, <<71248, 71257>>, <<71360, 71369>>,
      <<71472, 71481>>, <<71904, 71913>>, <<72016, 72025>>, <<72784, 72793>>,
      <<73040, 73049>>, <<73120, 73129>>, <<92768, 92777>>, <<92864, 92873>>,
      <<93008, 93017>>, <<120782, 120831>>, <<123200, 123209>>,
      <<123632, 123641>>, <<125264, 125273>>, <<130032, 130041>> >>

\* str.isalpha(): the letters (categories Lu, Ll, Lt, Lm, Lo)
AlphaRanges ==
    << <<65, 90>>, <<97, 122>>, <<170, 170>>, <<181, 181>>, <<186, 186>>,
      <<192, 214>>, <<216, 246>>, <<248, 705>>, <<710, 721>>, <<736, 740>>,
      <<748, 748>>, <<750, 750>>, <<880, 884>>, <<886, 887>>, <<890, 893>>,
      <<895, 895>>, <<902, 902>>, <<904, 906>>, <<908, 908>>, <<910, 929>>,
      <<931, 1013>>, <<1015, 1153>>, <<1162, 1327>>, <<1329, 1366>>,
      <<1369, 1369>>, <<1376, 1416>>, <<1488, 1514>>, <<1519, 1522>>,
      <<1568, 1610>>, <<1646, 1647>>, <<1649, 1747>>, <<1749, 1749>>,
      <<1765, 1766>>, <<1774, 1775>>, <<1786, 1788>>, <<1791, 1791>>,
      <<1808, 1808>>, <<1810, 1839>>, <<1869, 1957>>, <<1969, 1969>>,
      <<1994, 2026>>, <<2036, 2037>>, <<2042, 2042>>, <<2048, 2069>>,
      <<2074, 2074>>, <<2084, 2084>>, <<2088, 2088>>, <<2112, 2136>>,
      <<2144, 2154>>, <<2160, 2183>>, <<2185, 2190>>, <<2208, 2249>>,
      <<2308, 2361>>, <<2365, 2365>>, <<2384, 2384>>, <<2392, 2401>>,
      <<2417, 2432>>, <<2437, 2444>>, <<2447, 2448>>, <<2451, 2472>>,
      <<2474, 2480>>, <<2482, 2482>>, <<2486, 2489>>, <<2493, 2493>>,
      <<2510, 2510>>, <<2524, 2525>>, <<2527, 2529>>, <<2544, 2545>>,
      <<2556, 2556>>, <<2565, 2570>>, <<2575, 2576>>, <<2579, 2600>>,
      <<2602, 2608>>, <<2610, 2611>>, <<2613, 2614>>, <<2616, 2617>>,
      <<2649, 2652>>, <<2654, 2654>>, <<2674, 2676>>, <<2693, 2701>>,
      <<2703, 2705>>, <<2707, 2728>>, <<2730, 2736>>, <<2738, 2739>>,
      <<2741, 2745>>, <<2749, 2749>>, <<2768, 2768>>, <<2784, 2785>>,
      <<2809, 2809>>, <<2821, 2828>>, <<2831, 2832>>, <<2835, 2856>>,
      <<2858, 2864>>, <<2866, 2867>>, <<2869, 2873>>, <<2877, 2877>>,
      <<2908, 2909>>, <<2911, 2913>>, <<2929, 2929>>, <<2947, 2947>>,
      <<2949, 2954>>, <<2958, 2960>>, <<2962, 2965>>, <<2969, 2970>>,
      <<2972, 2972>>, <<2974, 2975>>, <<2979, 2980>>, <<2984, 2986>>,
      <<2990, 3001>>, <<3024, 3024>>, <<3077, 3084>>, <<3086, 3088>>,
      <<3090, 3112>>, <<3114, 3129>>, <<3133, 3133>>, <<3160, 3162>>,
      <<3165, 3165>>, <<3168, 3169>>, <<3200, 3200>>, <<3205, 3212>>,
      <<3214, 3216>>, <<3218, 3240>>, <<3242, 3251>>, <<3253, 3257>>,
      <<3261, 3261>>, <<3293, 3294>>, <<3296, 3297>>, <<3313, 3314>>,
      <<3332, 3340>>, <<3342, 3344>>, <<3346, 3386>>, <<3389, 3389>>,
      <<3406, 3406>>, <<3412, 3414>>, <<3423, 3425>>, <<3450, 3455>>,
      <<3461, 3478>>, <<3482, 3505>>, <<3507, 3515>>, <<3517, 3517>>,
      <<3520, 3526>>, <<3585, 3632>>, <<3634, 3635>>, <<3648, 3654>>,
      <<3713, 3714>>, <<3716, 3716>>, <<3718, 3722>>, <<3724, 3747>>,
      <<3749, 3749>>, <<3751, 3760>>, <<3762, 3763>>, <<3773, 3773>>,
      <<3776, 3780>>, <<3782, 3782>>, <<3804, 3807>>, <<3840, 3840>>,
      <<3904, 3911>>, <<3913, 3948>>, <<3976, 3980>>, <<4096, 4138>>,
      <<4159, 4159>>, <<4176, 4181>>, <<4186, 4189>>, <<4193, 4193>>,
      <<4197, 4198>>, <<4206, 4208>>, <<4213, 4225>>, <<4238, 4238>>,
      <<4256, 4293>>, <<4295, 4295>>, <<4301, 4301>>, <<4304, 4346>>,
      <<4348, 4680>>, <<4682, 4685>>, <<4688, 4694>>, <<4696, 4696>>,
      <<4698, 4701>>, <<4704, 4744>>, <<4746, 4749>>, <<4752, 4784>>,
      <<4786, 4789>>, <<4792, 4798>>, <<4800, 4800>>, <<4802, 4805>>,
      <<4808, 4822>>, <<4824, 4880>>, <<4882, 4885>>, <<4888, 4954>>,
      <<4992, 5007>>, <<5024, 5109>>, <<5112, 5117>>, <<5121, 5740>>,
      <<5743, 5759>>, <<5761, 5786>>, <<5792, 5866>>, <<5873, 5880>>,
      <<5888, 5905>>, <<5919, 5937>>, <<5952, 5969>>, <<5984, 5996>>,
      <<5998, 6000>>, <<6016, 6067>>, <<6103, 6103>>, <<6108, 6108>>,
      <<6176, 6264>>, <<6272, 6276>>, <<6279, 6312>>, <<6314, 6314>>,
      <<6320, 6389>>, <<6400, 6430>>, <<6480, 6509>>, <<6512, 6516>>,
      <<6528, 6571>>, <<6576, 6601>>, <<6656, 6678>>, <<6688, 6740>>,
      <<6823, 6823>>, <<6917, 6963>>, <<6981, 6988>>, <<7043, 7072>>,
      <<7086, 7087>>, <<7098, 7141>>, <<7168, 7203>>, <<7245, 7247>>,
      <<7258, 7293>>, <<7296, 7304>>, <<7312, 7354>>, <<7357, 7359>>,
      <<7401, 7404>>, <<7406, 7411>>, <<7413, 7414>>, <<7418, 7418>>,
      <<7424, 7615>>, <<7680, 7957>>, <<7960, 7965>>, <<7968, 8005>>,
      <<8008, 8013>>, <<8016, 8023>>, <<8025, 8025>>, <<8027, 8027>>,
      <<8029, 8029>>, <<8031, 8061>>, <<8064, 8116>>, <<8118, 8124>>,
      <<8126, 8126>>, <<8130, 8132>>, <<8134, 8140>>, <<8144, 8147>>,
      <<8150, 8155>>, <<8160, 8172>>, <<8178, 8180>>, <<8182, 8188>>,
      <<8305, 8305>>, <<8319, 8319>>, <<8336, 8348>>, <<8450, 8450>>,
      <<8455, 8455>>, <<8458, 8467>>, <<8469, 8469>>, <<8473, 8477>>,
      <<8484, 8484>>, <<8486, 8486>>, <<8488, 8488>>, <<8490, 8493>>,
      <<8495, 8505>>, <<8508, 8511>>, <<8517, 8521>>, <<8526, 8526>>,
      <<8579, 8580>>, <<11264, 11492>>, <<11499, 11502>>, <<11506, 11507>>,
      <<11520, 11557>>, <<11559, 11559>>, <<11565, 11565>>, <<11568, 11623>>,
      <<11631, 11631>>, <<11648, 11670>>, <<11680, 11686>>, <<11688, 11694>>,
      <<11696, 11702>>, <<11704, 11710>>, <<11712, 11718>>, <<11720, 11726>>,
      <<11728, 11734>>, <<11736, 11742>>, <<11823, 11823>>, <<12293, 12294>>,
      <<12337, 12341>>, <<12347, 12348>>, <<12353, 12438>>, <<12445, 12447>>,
      <<12449, 12538>>, <<12540, 12543>>, <<12549, 12591>>, <<12593, 12686>>,
      <<12704, 12735>>, <<12784, 12799>>, <<13312, 19903>>, <<19968, 42124>>,
      <<42192, 42237>>, <<42240, 42508>>, <<42512, 42527>>, <<42538, 42539>>,
      <<42560, 42606>>, <<42623, 42653>>, <<42656, 42725>>, <<42775, 42783>>,
      <<42786, 42888>>, <<42891, 42954>>, <<42960, 42961>>, <<42963, 42963>>,
      <<42965, 42969>>, <<42994, 43009>>, <<43011, 43013>>, <<43015, 43018>>,
      <<43020, 43042>>, <<43072, 43123>>, <<43138, 43187>>, <<43250, 43255>>,
      <<43259, 43259>>, <<43261, 43262>>, <<43274, 43301>>, <<43312, 43334>>,
      <<43360, 43388>>, <<43396, 43442>>, <<43471, 43471>>, <<43488, 43492>>,
      <<43494, 43503>>, <<43514, 43518>>, <<43520, 43560>>, <<43584, 43586>>,
      <<43588, 43595>>, <<43616, 43638>>, <<43642, 43642>>, <<43646, 43695>>,
      <<43697, 43697>>, <<43701, 43702>>, <<43705, 43709>>, <<43712, 43712>>,
      <<43714, 43714>>, <<43739, 43741>>, <<43744, 43754>>, <<43762, 43764>>,
      <<43777, 43782>>, <<43785, 43790>>, <<43793, 43798>>, <<43808, 43814>>,
      <<43816, 43822>>, <<43824, 43866>>, <<43868, 43881>>, <<43888, 44002>>,
      <<44032, 55203>>, <<55216, 55238>>, <<55243, 55291>>, <<63744, 64109>>,
      <<64112, 64217>>, <<64256, 64262>>, <<64275, 64279>>, <<64285, 64285>>,
      <<64287, 64296>>, <<64298, 64310>>, <<64312, 64316>>, <<64318, 64318>>,
      <<64320, 64321>>, <<64323, 64324>>, <<64326, 64433>>, <<64467, 64829>>,
      <<64848, 64911>>, <<64914, 64967>>, <<65008, 65019>>, <<65136, 65140>>,
      <<65142, 65276>>, <<65313, 65338>>, <<65345, 65370>>, <<65382, 65470>>,
      <<65474, 65479>>, <<65482, 65487>>, <<65490, 65495>>, <<65498, 65500>>,
      <<65536, 65547>>, <<65549, 65574>>, <<65576, 65594>>, <<65596, 65597>>,
      <<65599, 65613>>, <<65616, 65629>>, <<65664, 65786>>, <<66176, 66204>>,
      <<66208, 66256>>, <<66304, 66335>>, <<66349, 66368>>, <<66370, 66377>>,
      <<66384, 66421>>, <<66432, 66461>>, <<66464, 66499>>, <<66504, 66511>>,
      <<66560, 66717>>, <<66736, 66771>>, <<66776, 66811>>, <<66816, 66855>>,
      <<66864, 66915>>, <<66928, 66938>>, <<66940, 66954>>, <<66956, 66962>>,
      <<66964, 66965>>, <<66967, 66977>>, <<66979, 66993>>, <<66995, 67001>>,
      <<67003, 67004>>, <<67072, 67382>>, <<67392, 67413>>, <<67424, 67431>>,
      <<67456, 67461>>, <<67463, 67504>>, <<67506, 67514>>, <<67584, 67589>>,
      <<67592, 67592>>, <<67594, 67637>>, <<67639, 67640>>, <<67644, 67644>>,
      <<67647, 67669>>, <<67680, 67702>>, <<67712, 67742>>, <<67808, 67826>>,
      <<67828, 67829>>, <<67840, 67861>>, <<67872, 67897>>, <<67968, 68023>>,
      <<68030, 68031>>, <<68096, 68096>>, <<68112, 68115>>, <<68117, 68119>>,
      <<68121, 68149>>, <<68192, 68220>>, <<68224, 68252>>, <<68288, 68295>>,
      <<68297, 68324>>, <<68352, 68405>>, <<68416, 68437>>, <<68448, 68466>>,
      <<68480, 68497>>, <<68608, 68680>>, <<68736, 68786>>, <<68800, 68850>>,
      <<68864, 68899>>, <<69248, 69289>>, <<69296, 69297>>, <<69376, 69404>>,
      <<69415, 69415>>, <<69424, 69445>>, <<69488, 69505>>, <<69552, 69572>>,
      <<69600, 69622>>, <<69635, 69687>>, <<69745, 69746>>, <<69749, 69749>>,
      <<69763, 69807>>, <<69840, 69864>>, <<69891, 69926>>, <<69956, 69956>>,
      <<69959, 69959>>, <<69968, 70002>>, <<70006, 70006>>, <<70019, 70066>>,
      <<70081, 70084>>, <<70106, 70106>>, <<70108, 70108>>, <<70144, 70161>>,
      <<70163, 70187>>, <<70272, 70278>>, <<70280, 70280>>, <<70282, 70285>>,
      <<70287, 70301>>, <<70303, 70312>>, <<70320, 70366>>, <<70405, 70412>>,
      <<70415, 70416>>, <<70419, 70440>>, <<70442, 70448>>, <<70450, 70451>>,
      <<70453, 70457>>, <<70461, 70461>>, <<70480, 70480>>, <<70493, 70497>>,
      <<70656, 70708>>, <<70727, 70730>>, <<70751, 70753>>, <<70784, 70831>>,
      <<70852, 70853>>, <<70855, 70855>>, <<71040, 71086>>, <<71128, 71131>>,
      <<71168, 71215>>, <<71236, 71236>>, <<71296, 71338>>, <<71352, 71352>>,
      <<71424, 71450>>, <<71488, 71494>>, <<71680, 71723>>, <<71840, 71903>>,
      <<71935, 71942>>, <<71945, 71945>>, <<71948, 71955>>, <<71957, 71958>>,
      <<71960, 71983>>, <<71999, 71999>>, <<72001, 72001>>, <<72096, 72103>>,
      <<72106, 72144>>, <<72161, 72161>>, <<72163, 72163>>, <<72192, 72192>>,
      <<72203, 72242>>, <<72250, 72250>>, <<72272, 72272>>, <<72284, 72329>>,
      <<72349, 72349>>, <<72368, 72440>>, <<72704, 72712>>, <<72714, 72750>>,
      <<72768, 72768>>, <<72818, 72847>>, <<72960, 72966>>, <<72968, 72969>>,
      <<72971, 73008>>, <<73030, 73030>>, <<73056, 73061>>, <<73063, 73064>>,
      <<73066, 73097>>, <<73112, 73112>>, <<73440, 73458>>, <<73648, 73648>>,
      <<73728, 74649>>, <<74880, 75075>>, <<77712, 77808>>, <<77824, 78894>>,
      <<82944, 83526>>, <<92160, 92728>>, <<92736, 92766>>, <<92784, 92862>>,
      <<92880, 92909>>, <<92928, 92975>>, <<92992, 92995>>, <<93027, 93047>>,
      <<93053, 93071>>, <<93760, 93823>>, <<93952, 94026>>, <<94032, 94032>>,
      <<94099, 94111>>, <<94176, 94177>>, <<94179, 94179>>,
      <<94208, 100343>>, <<100352, 101589>>, <<101632, 101640>>,
      <<110576, 110579>>, <<110581, 110587>>, <<110589, 110590>>,
      <<110592, 110882>>, <<110928, 110930>>, <<110948, 110951>>,
      <<110960, 111355>>, <<113664, 113770>>, <<113776, 113788>>,
      <<113792, 113800>>, <<113808, 113817>>, <<119808, 119892>>,
      <<119894, 119964>>, <<119966, 119967>>, <<119970, 119970>>,
      <<119973, 119974>>, <<119977, 119980>>, <<119982, 119993>>,
      <<119995, 119995>>, <<119997, 120003>>, <<120005, 120069>>,
      <<120071, 120074>>, <<120077, 120084>>, <<120086, 120092>>,
      <<120094, 120121>>, <<120123, 120126>>, <<120128, 120132>>,
      <<120134, 120134>>, <<120138, 120144>>, <<120146, 120485>>,
      <<120488, 120512>>, <<120514, 120538>>, <<120540, 120570>>,
      <<120572, 120596>>, <<120598, 120628>>, <<120630, 120654>>,
      <<120656, 120686>>, <<120688, 120712>>, <<120714, 120744>>,
      <<120746, 120770>>, <<120772, 120779>>, <<122624, 122654>>,
      <<123136, 123180>>, <<123191, 123197>>, <<123214, 123214>>,
      <<123536, 123565>>, <<123584, 123627>>, <<124896, 124902>>,
      <<124904, 124907>>, <<124909, 124910>>, <<124912, 124926>>,
      <<124928, 125124>>, <<125184, 125251>>, <<125259, 125259>>,
      <<126464, 126467>>, <<126469, 126495>>, <<126497, 126498>>,
      <<126500, 126500>>, <<126503, 126503>>, <<126505, 126514>>,
      <<126516, 126519>>, <<126521, 126521>>, <<126523, 126523>>,
      <<126530, 126530>>, <<126535, 126535>>, <<126537, 126537>>,
      <<126539, 126539>>, <<126541, 126543>>, <<126545, 126546>>,
      <<126548, 126548>>, <<126551, 126551>>, <<126553, 126553>>,
      <<126555, 126555>>, <<126557, 126557>>, <<126559, 126559>>,
      <<126561, 126562>>, <<126564, 126564>>, <<126567, 126570>>,
      <<126572, 126578>>, <<126580, 126583>>, <<126585, 126588>>,
      <<126590, 126590>>, <<126592, 126601>>, <<126603, 126619>>,
      <<126625, 126627>>, <<126629, 126633>>, <<126635, 126651>>,
      <<131072, 173791>>, <<173824, 177976>>, <<177984, 178205>>,
      <<178208, 183969>>, <<183984, 191456>>, <<194560, 195101>>,
      <<196608, 201546>> >>

\* \w of re beyond letters and decimal digits: the underscore and the other numeric characters
OtherWordRanges ==
    << <<95, 95>>, <<178, 179>>, <<185, 185>>, <<188, 190>>, <<2548, 2553>>,
      <<2930, 2935>>, <<3056, 3058>>, <<3192, 3198>>, <<3416, 3422>>,
      <<3440, 3448>>, <<3882, 3891>>, <<4969, 4988>>, <<5870, 5872>>,
      <<6128, 6137>>, <<6618, 6618>>, <<8304, 8304>>, <<8308, 8313>>,
      <<8320, 8329>>, <<8528, 8578>>, <<8581, 8585>>, <<9312, 9371>>,
      <<9450, 9471>>, <<10102, 10131>>, <<11517, 11517>>, <<12295, 12295>>,
      <<12321, 12329>>, <<12344, 12346>>, <<12690, 12693>>, <<12832, 12841>>,
      <<12872, 12879>>, <<12881, 12895>>, <<12928, 12937>>, <<12977, 12991>>,
      <<42726, 42735>>, <<43056, 43061>>, <<65799, 65843>>, <<65856, 65912>>,
      <<65930, 65931>>, <<66273, 66299>>, <<66336, 66339>>, <<66369, 66369>>,
      <<66378, 66378>>, <<66513, 66517>>, <<67672, 67679>>, <<67705, 67711>>,
      <<67751, 67759>>, <<67835, 67839>>, <<67862, 67867>>, <<68028, 68029>>,
      <<68032, 68047>>, <<68050, 68095>>, <<68160, 68168>>, <<68221, 68222>>,
      <<68253, 68255>>, <<68331, 68335>>, <<68440, 68447>>, <<68472, 68479>>,
      <<68521, 68527>>, <<68858, 68863>>, <<69216, 69246>>, <<69405, 69414>>,
      <<69457, 69460>>, <<69573, 69579>>, <<69714, 69733>>, <<70113, 70132>>,
      <<71482, 71483>>, <<71914, 71922>>, <<72794, 72812>>, <<73664, 73684>>,
      <<74752, 74862>>, <<93019, 93025>>, <<93824, 93846>>,
      <<119520, 119539>>, <<119648, 119672>>, <<125127, 125135>>,
      <<126065, 126123>>, <<126125, 126127>>, <<126129, 126132>>,
      <<126209, 126253>>, <<126255, 126269>>, <<127232, 127244>> >>

\* whether one of ranges[lo..hi] holds c: the ranges are in ascending order
RECURSIVE InRangesBetween(_, _, _, _)
InRangesBetween(c, ranges, lo, hi) ==
    IF lo > hi THEN FALSE
    ELSE LET mid == (lo + hi) \div 2
         IN  IF c < ranges[mid][1] THEN InRangesBetween(c, ranges, lo, mid - 1)
             ELSE IF c > ranges[mid][2] THEN InRangesBetween(c, ranges, mid + 1, hi)
             ELSE TRUE

InRanges(c, ranges) == InRangesBetween(c, ranges, 1, Len(ranges))

\* str.isspace() of one character
IsSpace(c) ==
    IF c \in Ascii THEN c \in AsciiSpaces ELSE InRanges(c, SpaceRanges)

\* \d: a decimal digit of any script
IsDecimal(c) ==
    IF c \in Ascii THEN c \in AsciiDigits ELSE InRanges(c, DecimalRanges)

\* str.isalpha() of one character
IsLetter(c) ==
    IF c \in Ascii THEN c \in AsciiLetters ELSE InRanges(c, AlphaRanges)

\* \w: str.isalnum() of the character, or the underscore
IsWord(c) ==
    IF c \in Ascii
    THEN c \in AsciiWord
    ELSE \/ InRanges(c, AlphaRanges)
         \/ InRanges(c, DecimalRanges)
         \/ InRanges(c, OtherWordRanges)

IsOperatorChar(c) == c \in OperatorChars

\* what int() skips around the number: str.isspace() without U+001C..U+001F
IsIntSpace(c) == IsSpace(c) /\ c \notin 28..31

(***************************************************************************)
(* Generic string helpers.                                                 *)
(***************************************************************************)
\* str.strip(): s without its leading and trailing whitespace
Strip(s) ==
    IF \A k \in 1..Len(s) : IsSpace(s[k]) THEN << >>
    ELSE LET first == CHOOSE k \in 1..Len(s) :
                          ~IsSpace(s[k]) /\ \A j \in 1..(k - 1) : IsSpace(s[j])
             last == CHOOSE k \in 1..Len(s) :
                          ~IsSpace(s[k]) /\ \A j \in (k + 1)..Len(s) : IsSpace(s[j])
         IN  SubSeq(s, first, last)

\* str.replace(old, '') for a one-character old
RemoveChar(s, c) == SelectSeq(s, LAMBDA x : x # c)

\* sep in s
Contains(s, sep) == \E k \in 1..Len(s) : s[k] = sep

\* str.split(sep) for a one-character sep: always at least one part
RECURSIVE SplitFrom(_, _, _)
SplitFrom(s, sep, i) ==
    IF \A k \in i..Len(s) : s[k] # sep THEN <<SubSeq(s, i, Len(s))>>
    ELSE LET p == CHOOSE k \in i..Len(s) :
                      s[k] = sep /\ \A j \in i..(k - 1) : s[j] # sep
         IN  <<SubSeq(s, i, p - 1)>> \o SplitFrom(s, sep, p + 1)

Split(s, sep) == SplitFrom(s, sep, 1)

DigitChar(d) == Zero + d

\* the decimal text of a natural number, as an f-string formats it
RECURSIVE Str(_)
Str(n) == IF n < 10 THEN <<DigitChar(n)>>
          ELSE Append(Str(n \div 10), DigitChar(n % 10))

\* the classes [a-zA-Z_] and [a-zA-Z0-9_] of the pattern at line 63
IdentifierStart == AsciiLetters \cup {Underscore}

IdentifierPart == AsciiLetters \cup AsciiDigits \cup {Underscore}

\* re.match(r'^[a-zA-Z_][a-zA-Z0-9_]*$', v): $ also matches before a final newline
MatchesIdentifierBody(v) ==
    /\ Len(v) >= 1
    /\ v[1] \in IdentifierStart
    /\ \A k \in 2..Len(v) : v[k] \in IdentifierPart

MatchesIdentifier(v) ==
    \/ MatchesIdentifierBody(v)
    \/ /\ Len(v) >= 2
       /\ v[Len(v)] = LineFeed
       /\ MatchesIdentifierBody(SubSeq(v, 1, Len(v) - 1))

\* str.isalpha()
IsAlpha(token) ==
    /\ token # << >>
    /\ \A k \in 1..Len(token) : IsLetter(token[k])

(***************************************************************************)
(* RTLConverter.parse_expression: re.findall(r'\d+|\w+|[+\-*/]', ...) on    *)
(* the expression with its U+0020 characters removed.  The alternatives    *)
(* are tried in order at each position; a character no alternative         *)
(* matches is skipped.                                                     *)
(***************************************************************************)
\* \d+ at index i of s, a decimal digit: the last index of the match
DecimalRunEnd(s, i) ==
    CHOOSE e \in i..Len(s) :
        /\ e = Len(s) \/ ~IsDecimal(s[e + 1])
        /\ \A k \in i..e : IsDecimal(s[k])

\* \w+ at index i of s, a word character: the last index of the match
WordRunEnd(s, i) ==
    CHOOSE e \in i..Len(s) :
        /\ e = Len(s) \/ ~IsWord(s[e + 1])
        /\ \A k \in i..e : IsWord(s[k])

\* the matches from index i on
RECURSIVE FindAllTokensOrdered(_, _)
FindAllTokensOrdered(s, i) ==
    IF i > Len(s) THEN << >>
    ELSE IF IsDecimal(s[i])
         THEN LET e == DecimalRunEnd(s, i)
              IN  <<SubSeq(s, i, e)>> \o FindAllTokensOrdered(s, e + 1)
    ELSE IF IsWord(s[i])
         THEN LET e == WordRunEnd(s, i)
              IN  <<SubSeq(s, i, e)>> \o FindAllTokensOrdered(s, e + 1)
    ELSE IF IsOperatorChar(s[i])
         THEN <<SubSeq(s, i, i)>> \o FindAllTokensOrdered(s, i + 1)
    ELSE FindAllTokensOrdered(s, i + 1)

\* variant: the longest alternative wins (a digit-led word run is one token)
RECURSIVE FindAllTokensLongestFrom(_, _)
FindAllTokensLongestFrom(s, i) ==
    IF i > Len(s) THEN << >>
    ELSE IF IsWord(s[i])
         THEN LET e == WordRunEnd(s, i)
              IN  <<SubSeq(s, i, e)>> \o FindAllTokensLongestFrom(s, e + 1)
    ELSE IF IsOperatorChar(s[i])
         THEN <<SubSeq(s, i, i)>> \o FindAllTokensLongestFrom(s, i + 1)
    ELSE FindAllTokensLongestFrom(s, i + 1)

FindAllTokensLongest(s) == FindAllTokensLongestFrom(s, 1)

FindAllTokens(s) == FindAllTokensOrdered(s, 1)

parse_expression(expression) == FindAllTokens(RemoveChar(expression, Space))

(***************************************************************************)
(* RTLConverter.is_number: int(token) does not raise.  int() takes         *)
(* surrounding whitespace, one sign, and decimal digits of any script with *)
(* single underscores between them; it raises ValueError for more than     *)
(* sys.get_int_max_str_digits() digits, 4300 unless the interpreter is     *)
(* configured otherwise.                                                   *)
(***************************************************************************)
IntMaxStrDigits == 4300

IntBodyParses(b) ==
    /\ b # << >>
    /\ \A k \in 1..Len(b) : IsDecimal(b[k]) \/ b[k] = Underscore
    /\ IsDecimal(b[1])
    /\ IsDecimal(b[Len(b)])
    /\ \A k \in 1..(Len(b) - 1) : ~(b[k] = Underscore /\ b[k + 1] = Underscore)
    /\ Cardinality({k \in 1..Len(b) : IsDecimal(b[k])}) <= IntMaxStrDigits

\* the token without the whitespace int() skips around the number
IntStrip(s) ==
    IF \A k \in 1..Len(s) : IsIntSpace(s[k]) THEN << >>
    ELSE LET first == CHOOSE k \in 1..Len(s) :
                          ~IsIntSpace(s[k]) /\ \A j \in 1..(k - 1) : IsIntSpace(s[j])
             last == CHOOSE k \in 1..Len(s) :
                          ~IsIntSpace(s[k]) /\ \A j \in (k + 1)..Len(s) : IsIntSpace(s[j])
         IN  SubSeq(s, first, last)

IntParses(token) ==
    LET t == IntStrip(token)
    IN  /\ t # << >>
        /\ IntBodyParses(IF t[1] \in {Plus, Minus} THEN Tail(t) ELSE t)

is_number(token) == IntParses(token)

\* RTLConverter.is_operator
is_operator(token) == Len(token) = 1 /\ token[1] \in OperatorChars

\* the operand test written at lines 72, 83 and 97
IsOperand(token) == is_number(token) \/ IsAlpha(token)

(***************************************************************************)
(* The translator object: self.register_counter, self.rtl_instructions.    *)
(***************************************************************************)
NewConverter == [register_counter |-> 1, rtl_instructions |-> << >>]

reset_mutant_keep_counter(self) ==
    [register_counter |-> self.register_counter, rtl_instructions |-> << >>]

reset(self) == [register_counter |-> 1, rtl_instructions |-> << >>]

RegisterPrefix == Text(<<"R">>)

RegisterName(n) == RegisterPrefix \o Str(n)

get_next_register_mutant_reuse(self) ==
    [name |-> RegisterName(self.register_counter), self |-> self]

\* returns the register name and the object after the increment
get_next_register(self) ==
    [name |-> RegisterName(self.register_counter),
     self |-> [self EXCEPT !.register_counter = self.register_counter + 1]]

Arrow == Text(<<" ", "<", "-", " ">>)

\* f"{dest} <- {src}"
LoadInstruction(dest, src) == dest \o Arrow \o src

\* f"{dest} <- {left} {operator} {right}"
CombineInstruction(dest, left, operator, right) ==
    dest \o Arrow \o left \o <<Space>> \o operator \o <<Space>> \o right

AppendInstruction(self, instruction) ==
    [self EXCEPT !.rtl_instructions = Append(self.rtl_instructions, instruction)]

FailureMutantPartial(self, message) ==
    [self |-> self, instructions |-> self.rtl_instructions, error |-> message]

\* return [], message
Failure(self, message) ==
    [self |-> self, instructions |-> << >>, error |-> message]

\* return self.rtl_instructions, ""
Success(self) ==
    [self |-> self, instructions |-> self.rtl_instructions, error |-> << >>]

ErrMissingAssignment == <<"Error: Expression must contain an assignment (=)">>
ErrInvalidFormat == <<"Error: Invalid assignment format">>
ErrInvalidVariable == <<"Error: Invalid variable name">>
ErrEmptyExpression == <<"Error: Empty expression">>
ErrInvalidSingleToken == <<"Error: Invalid single token">>
ErrMissingOperand == <<"Error: Missing operand after operator">>
ErrExpectedOperand(i) == <<"Error: Expected number or variable at position ">> \o Str(i)
ErrExpectedOperator(i) == <<"Error: Expected operator at position ">> \o Str(i)

(***************************************************************************)
(* The while loop of convert_to_rtl (lines 80-116).  i is the zero-based   *)
(* index of the code; tokens[i] of the code is tokens[i + 1] here.  cur is  *)
(* current_register, << >> standing for None.                              *)
(***************************************************************************)
FinishScanMutantNoFinal(self, variable, cur) == Success(self)

\* lines 113-116: the final assignment and the return
FinishScan(self, variable, cur) ==
    IF cur # << >>
    THEN Success(AppendInstruction(self, LoadInstruction(variable, cur)))
    ELSE Success(self)

RECURSIVE ScanLoop(_, _, _, _, _)
ScanLoop(self, variable, tokens, i, cur) ==
    IF i >= Len(tokens)
    THEN FinishScan(self, variable, cur)
    ELSE IF i = 0
    THEN IF IsOperand(tokens[i + 1])
         THEN LET g == get_next_register(self)
              IN  ScanLoop(AppendInstruction(g.self, LoadInstruction(g.name, tokens[i + 1])),
                           variable, tokens, i + 1, g.name)
         ELSE Failure(self, ErrExpectedOperand(i))
    ELSE IF i % 2 = 1
    THEN IF ~is_operator(tokens[i + 1])
         THEN Failure(self, ErrExpectedOperator(i))
         ELSE IF i + 1 >= Len(tokens)
         THEN Failure(self, ErrMissingOperand)
         ELSE IF ~IsOperand(tokens[i + 2])
         THEN Failure(self, ErrExpectedOperand(i + 1))
         ELSE LET next_operand == tokens[i + 2]
                  g1 == get_next_register(self)
                  s1 == AppendInstruction(g1.self, LoadInstruction(g1.name, next_operand))
                  g2 == get_next_register(s1)
                  s2 == AppendInstruction(g2.self,
                            CombineInstruction(g2.name, cur, tokens[i + 1], g1.name))
              IN  ScanLoop(s2, variable, tokens, i + 2, g2.name)
    ELSE ScanLoop(self, variable, tokens, i + 1, cur)

(***************************************************************************)
(* convert_to_rtl after self.reset(), lines 52-116, in the order of the    *)
(* code.                                                                   *)
(***************************************************************************)
ConvertBodyMutantVariableAfterTokens(self, expression) ==
    IF ~Contains(expression, Equals) THEN Failure(self, ErrMissingAssignment)
    ELSE LET parts == Split(expression, Equals)
         IN  IF Len(parts) # 2 THEN Failure(self, ErrInvalidFormat)
             ELSE LET variable == Strip(parts[1])
                      expr == Strip(parts[2])
                      tokens == parse_expression(expr)
                  IN  IF Len(tokens) = 0 THEN Failure(self, ErrEmptyExpression)
                      ELSE IF ~MatchesIdentifier(variable)
                      THEN Failure(self, ErrInvalidVariable)
                      ELSE IF Len(tokens) = 1
                      THEN IF IsOperand(tokens[1])
                           THEN Success(AppendInstruction(self,
                                    LoadInstruction(variable, tokens[1])))
                           ELSE Failure(self, ErrInvalidSingleToken)
                      ELSE ScanLoop(self, variable, tokens, 0, << >>)

ConvertBody(self, expression) ==
    IF ~Contains(expression, Equals) THEN Failure(self, ErrMissingAssignment)
    ELSE LET parts == Split(expression, Equals)
         IN  IF Len(parts) # 2 THEN Failure(self, ErrInvalidFormat)
             ELSE LET variable == Strip(parts[1])
                      expr == Strip(parts[2])
                  IN  IF ~MatchesIdentifier(variable)
                      THEN Failure(self, ErrInvalidVariable)
                      ELSE LET tokens == parse_expression(expr)
                           IN  IF Len(tokens) = 0 THEN Failure(self, ErrEmptyExpression)
                               ELSE IF Len(tokens) = 1
                               THEN IF IsOperand(tokens[1])
                                    THEN Success(AppendInstruction(self,
                                             LoadInstruction(variable, tokens[1])))
                                    ELSE Failure(self, ErrInvalidSingleToken)
                               ELSE ScanLoop(self, variable, tokens, 0, << >>)

\* RTLConverter.convert_to_rtl
convert_to_rtl(self, expression) == ConvertBody(reset(self), expression)



(***************************************************************************)
(* State: the text of the input box, one translator object, and what the  *)
(* last call was given and returned.  called, argument and before record  *)
(* the call for the properties below.                                      *)
(***************************************************************************)
VARIABLES
    expression,        \* the text of the input box
    converter,         \* the RTLConverter object
    called,            \* whether convert_to_rtl has been called
    argument,          \* the expression of the last call
    before,            \* the object as the last call found it
    instructions,      \* first component returned by the last call
    error,             \* second component returned by the last call
    tokens,            \* the token list of the right-hand side (SpecTok)
    objects,           \* SpecConc: the attributes of each RTLConverter object
    heap,              \* SpecConc: the contents of each list object
    calls              \* SpecConc: the frame of each thread's call

sequential == <<expression, converter, called, argument, before, instructions, error, tokens>>

concurrent == <<objects, heap, calls>>

vars == <<sequential, concurrent>>

(***************************************************************************)
(* Objects, lists and frames of the interleaved calls (SpecConc).  A list *)
(* is an object of its own: an attribute holds a reference to it.  The    *)
(* list made by __init__ of object o has reference o; the list made by    *)
(* reset() in the call of thread t has reference t.                       *)
(***************************************************************************)
Objects == {"c1", "c2"}

Threads == {"t1", "t2"}

NoObject == "none"

EmptyLiteral == "[]"

IdleFrame ==
    [pc |-> "idle", self |-> NoObject, expression |-> << >>, variable |-> << >>,
     tokens |-> << >>, i |-> 0, current_register |-> << >>, purpose |-> "none",
     register_name |-> << >>, counter_read |-> 0, next_register |-> << >>,
     list_read |-> EmptyLiteral, pending |-> << >>, returned |-> EmptyLiteral,
     error |-> << >>, overlapped |-> FALSE]

\* RTLConverter.__init__ of every object
ConstructedObjects == [o \in Objects |-> [register_counter |-> 1, rtl_instructions |-> o]]

InitConcurrent ==
    /\ objects = ConstructedObjects
    /\ heap = [l \in Objects \cup Threads |-> << >>]
    /\ calls = [t \in Threads |-> IdleFrame]

InitSequential ==
    /\ converter = NewConverter
    /\ called = FALSE
    /\ argument = << >>
    /\ before = NewConverter
    /\ instructions = << >>
    /\ error = << >>
    /\ tokens = << >>

\* value="x = 6 + 9", the text the input box holds when the page opens
DefaultExpression == Text(<<"x", " ", "=", " ", "6", " ", "+", " ", "9">>)

Init ==
    /\ expression = DefaultExpression
    /\ InitSequential
    /\ InitConcurrent

Alphabet == Chars(<<"a", "1", "_", "=", "+", " ">>)

\* the user types one more character
Type(c) ==
    /\ Len(expression) < MaxLen
    /\ expression' = Append(expression, c)
    /\ UNCHANGED <<converter, called, argument, before, instructions, error, tokens>>
    /\ UNCHANGED concurrent

\* the user deletes the last character
Erase ==
    /\ expression # << >>
    /\ expression' = SubSeq(expression, 1, Len(expression) - 1)
    /\ UNCHANGED <<converter, called, argument, before, instructions, error, tokens>>
    /\ UNCHANGED concurrent

\* one whole call converter.convert_to_rtl(expression)
Translate ==
    LET r == convert_to_rtl(converter, expression)
    IN  /\ converter' = r.self
        /\ called' = TRUE
        /\ argument' = expression
        /\ before' = converter
        /\ instructions' = r.instructions
        /\ error' = r.error
        /\ UNCHANGED <<expression, tokens>>
        /\ UNCHANGED concurrent

(***************************************************************************)
(* Spec: the application's use (main, lines 151-162): the text of the box  *)
(* is edited, the button constructs a converter and calls convert_to_rtl   *)
(* once.                                                                   *)
(***************************************************************************)
Next ==
    \/ \E c \in Alphabet : ~called /\ Type(c)
    \/ ~called /\ Erase
    \/ ~called /\ Translate

Spec == Init /\ [][Next]_vars

(***************************************************************************)
(* SpecReuse: one converter object called again and again while the text  *)
(* grows; characters are deleted before the first call only.               *)
(***************************************************************************)
ReuseAlphabet == Chars(<<"a", "1", "=", "+">>)

NextReuse ==
    \/ \E c \in ReuseAlphabet : Type(c)
    \/ ~called /\ Erase
    \/ Translate

SpecReuse == Init /\ [][NextReuse]_vars

(***************************************************************************)
(* SpecTok: lines 56-66 on the right-hand side of the edited text: the    *)
(* characters typed go after the "=" of the text.                          *)
(***************************************************************************)
\* the printable characters, a tab (U+0009), e-acute (U+00E9) and ARABIC-INDIC
\* DIGIT THREE (U+0663)
TokAlphabet == Chars(<<"a", "1", "+", " ", ".">>) \cup {9, 233, 1635}

TypeTok(c) ==
    /\ ~called
    /\ Contains(expression, Equals)
    /\ Len(Split(expression, Equals)[2]) < MaxTokLen
    /\ expression' = Append(expression, c)
    /\ UNCHANGED <<converter, called, argument, before, instructions, error, tokens>>
    /\ UNCHANGED concurrent

\* parts = expression.split('='); expr = parts[1].strip(); tokens = parse_expression(expr)
Tokenize ==
    /\ ~called
    /\ LET parts == Split(expression, Equals)
       IN  /\ Len(parts) = 2
           /\ tokens' = parse_expression(Strip(parts[2]))
    /\ called' = TRUE
    /\ argument' = expression
    /\ UNCHANGED <<expression, converter, before, instructions, error>>
    /\ UNCHANGED concurrent

NextTok ==
    \/ \E c \in TokAlphabet : TypeTok(c)
    \/ ~called /\ Erase
    \/ Tokenize

SpecTok == Init /\ [][NextTok]_vars

(***************************************************************************)
(* SpecLong: the text box takes text of any length (st.text_input at line *)
(* 151 sets no max_chars).  A number of IntMaxStrDigits digits is pasted  *)
(* once into the text being edited; the button calls convert_to_rtl once. *)
(***************************************************************************)
LongAlphabet == Chars(<<"a", "1", "=", "+">>)

Clipboard == [k \in 1..IntMaxStrDigits |-> Ord("1")]

Pasted == Len(expression) >= IntMaxStrDigits

TypeLong(c) ==
    /\ ~called
    /\ Len(expression) < (IF Pasted THEN IntMaxStrDigits ELSE 0) + MaxLongTyped
    /\ expression' = Append(expression, c)
    /\ UNCHANGED <<converter, called, argument, before, instructions, error, tokens>>
    /\ UNCHANGED concurrent

Paste ==
    /\ ~called
    /\ ~Pasted
    /\ expression' = expression \o Clipboard
    /\ UNCHANGED <<converter, called, argument, before, instructions, error, tokens>>
    /\ UNCHANGED concurrent

NextLong ==
    \/ \E c \in LongAlphabet : TypeLong(c)
    \/ ~called /\ ~Pasted /\ Erase
    \/ Paste
    \/ ~called /\ Translate

SpecLong == Init /\ [][NextLong]_vars

(***************************************************************************)
(* SpecConc: two threads, each making one call of convert_to_rtl on one   *)
(* of two converter objects.  A step is one access to an attribute of     *)
(* self or one call on a list; the statements that touch only locals run  *)
(* with the access before them.  self.register_counter += 1 is a read     *)
(* and a write.                                                           *)
(***************************************************************************)
ConcInputs ==
    {Text(<<"a">>),
     Text(<<"a", "=", "1">>),
     Text(<<"a", "=", "a", "+">>),
     Text(<<"a", "=", "a", "+", "1">>)}

CounterOwnerMutantClassLevel(o) == CHOOSE c \in Objects : TRUE

\* the object whose attribute self.register_counter is, for self = o (line 11)
CounterOwner(o) == o

\* return [], message
FrameFailure(f, message) ==
    [f EXCEPT !.pc = "done", !.returned = EmptyLiteral, !.error = message]

\* the head of the while loop (lines 81-98, 113-114) up to its next access to self
RECURSIVE LoopHead(_)
LoopHead(f) ==
    IF f.i >= Len(f.tokens)
    THEN IF f.current_register # << >>
         THEN [f EXCEPT !.pending = LoadInstruction(f.variable, f.current_register),
                        !.purpose = "final", !.pc = "append_load"]
         ELSE [f EXCEPT !.pc = "return"]
    ELSE IF f.i = 0
    THEN IF IsOperand(f.tokens[f.i + 1])
         THEN [f EXCEPT !.purpose = "seed", !.pc = "gnr_name"]
         ELSE FrameFailure(f, ErrExpectedOperand(f.i))
    ELSE IF f.i % 2 = 1
    THEN IF ~is_operator(f.tokens[f.i + 1])
         THEN FrameFailure(f, ErrExpectedOperator(f.i))
         ELSE IF f.i + 1 >= Len(f.tokens)
         THEN FrameFailure(f, ErrMissingOperand)
         ELSE IF ~IsOperand(f.tokens[f.i + 2])
         THEN FrameFailure(f, ErrExpectedOperand(f.i + 1))
         ELSE [f EXCEPT !.purpose = "next", !.pc = "gnr_name"]
    ELSE LoopHead([f EXCEPT !.i = f.i + 1])

\* lines 53-80, after self.reset()
AfterReset(f) ==
    IF ~Contains(f.expression, Equals) THEN FrameFailure(f, ErrMissingAssignment)
    ELSE LET parts == Split(f.expression, Equals)
         IN  IF Len(parts) # 2 THEN FrameFailure(f, ErrInvalidFormat)
             ELSE LET variable == Strip(parts[1])
                      expr == Strip(parts[2])
                  IN  IF ~MatchesIdentifier(variable)
                      THEN FrameFailure(f, ErrInvalidVariable)
                      ELSE LET toks == parse_expression(expr)
                           IN  IF Len(toks) = 0
                               THEN FrameFailure(f, ErrEmptyExpression)
                               ELSE IF Len(toks) = 1
                               THEN IF IsOperand(toks[1])
                                    THEN [f EXCEPT
                                            !.variable = variable, !.tokens = toks,
                                            !.pending = LoadInstruction(variable, toks[1]),
                                            !.purpose = "single", !.pc = "append_load"]
                                    ELSE FrameFailure(f, ErrInvalidSingleToken)
                               ELSE LoopHead([f EXCEPT
                                        !.variable = variable, !.tokens = toks,
                                        !.i = 0, !.current_register = << >>])

\* get_next_register has returned f.register_name (lines 84-85, 100-101, 103-105)
AfterGetNextRegister(f) ==
    CASE f.purpose = "seed" ->
            [f EXCEPT !.current_register = f.register_name,
                      !.pending = LoadInstruction(f.register_name, f.tokens[f.i + 1]),
                      !.pc = "append_load"]
      [] f.purpose = "next" ->
            [f EXCEPT !.next_register = f.register_name,
                      !.pending = LoadInstruction(f.register_name, f.tokens[f.i + 2]),
                      !.pc = "append_load"]
      [] f.purpose = "result" ->
            [f EXCEPT !.pending = CombineInstruction(f.register_name, f.current_register,
                                      f.tokens[f.i + 1], f.next_register),
                      !.pc = "append_load"]

\* the append has returned (lines 74, 85, 101-103, 105-111, 114-116)
AfterAppend(f) ==
    CASE f.purpose = "seed" -> LoopHead([f EXCEPT !.i = f.i + 1])
      [] f.purpose = "next" -> [f EXCEPT !.purpose = "result", !.pc = "gnr_name"]
      [] f.purpose = "result" ->
            LoopHead([f EXCEPT !.current_register = f.register_name, !.i = f.i + 2])
      [] f.purpose \in {"final", "single"} -> [f EXCEPT !.pc = "return"]

InCall(t) == calls[t].pc \notin {"idle", "done"}

\* thread t's frame becomes f; overlapped records that another call was under way
Step(t, f) ==
    calls' = [calls EXCEPT ![t] =
                [f EXCEPT !.overlapped =
                    calls[t].overlapped \/ \E u \in Threads \ {t} : InCall(u)]]

\* converter.convert_to_rtl(expression) is entered
Call(t, o, e) ==
    /\ calls[t].pc = "idle"
    /\ Step(t, [IdleFrame EXCEPT !.pc = "reset_counter", !.self = o, !.expression = e])
    /\ UNCHANGED <<objects, heap, sequential>>

\* reset: self.register_counter = 1
ResetCounter(t) ==
    /\ calls[t].pc = "reset_counter"
    /\ objects' = [objects EXCEPT ![CounterOwner(calls[t].self)].register_counter = 1]
    /\ Step(t, [calls[t] EXCEPT !.pc = "reset_list"])
    /\ UNCHANGED <<heap, sequential>>

\* reset: self.rtl_instructions = [], then the checks of lines 53-98
ResetList(t) ==
    /\ calls[t].pc = "reset_list"
    /\ heap' = [heap EXCEPT ![t] = << >>]
    /\ objects' = [objects EXCEPT ![calls[t].self].rtl_instructions = t]
    /\ Step(t, AfterReset(calls[t]))
    /\ UNCHANGED sequential

\* get_next_register: register_name = f"R{self.register_counter}"
GnrName(t) ==
    /\ calls[t].pc = "gnr_name"
    /\ Step(t, [calls[t] EXCEPT
                  !.register_name =
                      RegisterName(objects[CounterOwner(calls[t].self)].register_counter),
                  !.pc = "gnr_load"])
    /\ UNCHANGED <<objects, heap, sequential>>

\* get_next_register: the read of self.register_counter += 1
GnrLoad(t) ==
    /\ calls[t].pc = "gnr_load"
    /\ Step(t, [calls[t] EXCEPT
                  !.counter_read = objects[CounterOwner(calls[t].self)].register_counter,
                  !.pc = "gnr_store"])
    /\ UNCHANGED <<objects, heap, sequential>>

\* get_next_register: the write of self.register_counter += 1, and the return
GnrStore(t) ==
    /\ calls[t].pc = "gnr_store"
    /\ objects' = [objects EXCEPT ![CounterOwner(calls[t].self)].register_counter =
                                      calls[t].counter_read + 1]
    /\ Step(t, AfterGetNextRegister(calls[t]))
    /\ UNCHANGED <<heap, sequential>>

\* self.rtl_instructions.append(...): the read of the attribute
AppendLoad(t) ==
    /\ calls[t].pc = "append_load"
    /\ Step(t, [calls[t] EXCEPT !.list_read = objects[calls[t].self].rtl_instructions,
                                !.pc = "append_call"])
    /\ UNCHANGED <<objects, heap, sequential>>

\* self.rtl_instructions.append(...): the call on the list that was read
AppendCall(t) ==
    /\ calls[t].pc = "append_call"
    /\ heap' = [heap EXCEPT ![calls[t].list_read] = Append(@, calls[t].pending)]
    /\ Step(t, AfterAppend(calls[t]))
    /\ UNCHANGED <<objects, sequential>>

\* return self.rtl_instructions, ""
Return(t) ==
    /\ calls[t].pc = "return"
    /\ Step(t, [calls[t] EXCEPT !.returned = objects[calls[t].self].rtl_instructions,
                                !.error = << >>, !.pc = "done"])
    /\ UNCHANGED <<objects, heap, sequential>>

NextConc ==
    \E t \in Threads :
        \/ \E o \in Objects, e \in ConcInputs : Call(t, o, e)
        \/ ResetCounter(t)
        \/ ResetList(t)
        \/ GnrName(t)
        \/ GnrLoad(t)
        \/ GnrStore(t)
        \/ AppendLoad(t)
        \/ AppendCall(t)
        \/ Return(t)

SpecConc == Init /\ [][NextConc]_vars

\* the instructions a finished call returned, as its caller reads them
ReturnedInstructions(t) ==
    IF calls[t].returned = EmptyLiteral THEN << >> ELSE heap[calls[t].returned]

(***************************************************************************)
(* Vocabulary of the properties, written from the grammar of the input    *)
(* rather than from the steps of convert_to_rtl.                          *)
(***************************************************************************)
CountChar(s, c) == Cardinality({k \in 1..Len(s) : s[k] = c})

OneAssignment(e) == CountChar(e, Equals) = 1

EqualsAt(e) == CHOOSE k \in 1..Len(e) : e[k] = Equals

\* the trimmed left-hand side of an expression with one "="
VariableOf(e) == Strip(SubSeq(e, 1, EqualsAt(e) - 1))

\* the right-hand side of an expression with one "="
RhsOf(e) == SubSeq(e, EqualsAt(e) + 1, Len(e))

TokensOf(e) == parse_expression(Strip(RhsOf(e)))

\* [A-Za-z_][A-Za-z0-9_]* in its entirety
IdentifierGrammar(v) ==
    /\ v # << >>
    /\ v[1] \in AsciiLetters \cup {Underscore}
    /\ \A k \in 1..Len(v) : v[k] \in AsciiLetters \cup AsciiDigits \cup {Underscore}

PurelyNumeric(t) == t # << >> /\ \A k \in 1..Len(t) : IsDecimal(t[k])

PurelyAlphabetic(t) == t # << >> /\ \A k \in 1..Len(t) : IsLetter(t[k])

PureOperand(t) == PurelyNumeric(t) \/ PurelyAlphabetic(t)

OperatorToken(t) == Len(t) = 1 /\ t[1] \in OperatorChars

\* operand, operator, operand, ..., operand
Alternating(toks) ==
    /\ Len(toks) % 2 = 1
    /\ \A k \in 1..Len(toks) :
          IF k % 2 = 1 THEN PureOperand(toks[k]) ELSE OperatorToken(toks[k])

WellFormed(e) ==
    /\ OneAssignment(e)
    /\ IdentifierGrammar(VariableOf(e))
    /\ Alternating(TokensOf(e))

Succeeded == called /\ error = << >>

OperandCount(toks) == (Len(toks) + 1) \div 2

\* the texts "dest <- src", "left op right" and "R<k>" of the specification
LetterR == Ord("R")
Transfer(dest, src) == dest \o Arrow \o src
Applied(left, op, right) == left \o <<Space>> \o op \o <<Space>> \o right
R(k) == <<LetterR>> \o Str(k)

\* operand_i and op_i of the claim, i counted from 0
OperandAt(toks, i) == toks[2 * i + 1]
OperatorAt(toks, i) == toks[2 * i]

ExpectedFold(variable, toks) ==
    LET n == OperandCount(toks)
    IN  [j \in 1..(2 * n) |->
            IF j = 1 THEN Transfer(R(1), OperandAt(toks, 0))
            ELSE IF j = 2 * n THEN Transfer(variable, R(2 * n - 1))
            ELSE IF j % 2 = 0 THEN Transfer(R(j), OperandAt(toks, j \div 2))
            ELSE LET i == j \div 2
                     accumulator == IF i = 1 THEN R(1) ELSE R(2 * (i - 1) + 1)
                 IN  Transfer(R(j), Applied(accumulator, OperatorAt(toks, i), R(2 * i)))]

(***************************************************************************)
(* C1 (SpecLong).  A right-hand side operand_0 op_1 operand_1 ... with    *)
(* n >= 2 operands yields exactly 2n instructions: R1 <- operand_0; for   *)
(* each i = 1..n-1 the load R(2i) <- operand_i followed by the combine    *)
(* R(2i+1) <- accumulator op_i R(2i), the accumulator being R1 for i = 1   *)
(* and the previous combine's destination otherwise; last                  *)
(* variable <- R(2n-1).  No precedence is applied.                         *)
(***************************************************************************)
C1_LeftToRightFold ==
    (called /\ WellFormed(argument) /\ OperandCount(TokensOf(argument)) >= 2)
        => /\ error = << >>
           /\ instructions = ExpectedFold(VariableOf(argument), TokensOf(argument))

(***************************************************************************)
(* C2.  Every call returns a pair with exactly one non-empty component:   *)
(* instructions with an empty error, or no instruction with an error;     *)
(* a failure found after instructions were emitted returns no instruction.*)
(***************************************************************************)
C2_ExactlyOnePopulated ==
    called => \/ instructions # << >> /\ error = << >>
              \/ instructions = << >> /\ error # << >>

C2_Witness ==
    /\ called
    /\ converter.rtl_instructions # << >>
    /\ instructions = << >>
    /\ error # << >>

(***************************************************************************)
(* C3 (SpecLong).  A call succeeds exactly when the input has one "=",    *)
(* its trimmed left-hand side is an identifier, and the tokens of the     *)
(* right-hand side alternate operand, operator, ..., operand, an operand  *)
(* being purely numeric or purely alphabetic; one valid token yields the  *)
(* single instruction variable <- token.                                  *)
(***************************************************************************)
C3_SuccessIffWellFormed ==
    called =>
        /\ (error = << >>) <=> WellFormed(argument)
        /\ (WellFormed(argument) /\ Len(TokensOf(argument)) = 1)
              => instructions =
                   <<Transfer(VariableOf(argument), TokensOf(argument)[1])>>

(***************************************************************************)
(* C5.  In a successful translation the destinations of the load and      *)
(* combine instructions are R1, R2, R3, ... in emission order, and every  *)
(* register read by an instruction is the destination of an earlier one.  *)
(***************************************************************************)
Fields(instruction) == Split(instruction, Space)

Destination(instruction) == Fields(instruction)[1]

\* the fields after "<-" other than the operator
Sources(instruction) ==
    LET f == Fields(instruction)
    IN  {f[k] : k \in {k \in 3..Len(f) : ~OperatorToken(f[k])}}

IsRegisterText(f) ==
    /\ Len(f) >= 2
    /\ f[1] = LetterR
    /\ \A k \in 2..Len(f) : f[k] \in AsciiDigits

C5_RegistersInOrder ==
    Succeeded =>
        /\ \A j \in 1..(Len(instructions) - 1) :
              Destination(instructions[j]) = R(j)
        /\ \A j \in 1..Len(instructions) :
              \A f \in Sources(instructions[j]) :
                 IsRegisterText(f) =>
                    \E h \in 1..(j - 1) : Destination(instructions[h]) = f

C5_Witness ==
    /\ Succeeded
    /\ Len(instructions) = 6
    /\ Destination(instructions[5]) = R(5)
    /\ Sources(instructions[5]) = {R(3), R(4)}

(***************************************************************************)
(* C6 as stated.  The number of instructions of a successful translation  *)
(* is odd.                                                                *)
(***************************************************************************)
C6_Original_OddCount == Succeeded => Len(instructions) % 2 = 1

(***************************************************************************)
(* C6 amended.  A successful translation of one token has 1 instruction;  *)
(* a successful translation of n >= 2 operands has 2n, an even number.    *)
(***************************************************************************)
C6_CountIsOneOrTwiceOperands ==
    Succeeded =>
        LET n == OperandCount(TokensOf(argument))
        IN  IF n = 1 THEN Len(instructions) = 1
            ELSE Len(instructions) = 2 * n

C6_Witness ==
    /\ Succeeded
    /\ OperandCount(TokensOf(argument)) = 2
    /\ Len(instructions) = 4

(***************************************************************************)
(* C7.  The checks are made in the order: one "=", the left-hand side,    *)
(* a non-empty token list, the single token, the alternation; the error   *)
(* returned is that of the first check that fails: a later check's error  *)
(* is returned only when every earlier check passes.                      *)
(***************************************************************************)
AlternationErrors ==
    {ErrMissingOperand}
        \cup {ErrExpectedOperand(i) : i \in 0..MaxLen}
        \cup {ErrExpectedOperator(i) : i \in 0..MaxLen}

\* the first check an expression can fail, by the errors that check returns
FirstCheckErrors(e) ==
    IF ~OneAssignment(e) THEN {ErrMissingAssignment, ErrInvalidFormat}
    ELSE IF ~IdentifierGrammar(VariableOf(e)) THEN {ErrInvalidVariable}
    ELSE IF TokensOf(e) = << >> THEN {ErrEmptyExpression}
    ELSE IF Len(TokensOf(e)) = 1 THEN {ErrInvalidSingleToken}
    ELSE AlternationErrors

\* whether an earlier check than the token checks fails
FailsBeforeTokens(e) ==
    \/ ~OneAssignment(e)
    \/ ~IdentifierGrammar(VariableOf(e))
    \/ TokensOf(e) = << >>

C7_FirstFailingCheckWins ==
    called =>
        /\ error # << >> => error \in FirstCheckErrors(argument)
        /\ FailsBeforeTokens(argument) => error # << >>
        /\ ~Contains(argument, Equals) => error = ErrMissingAssignment

\* an invalid variable name and an empty right-hand side
C7_Witness ==
    /\ called
    /\ OneAssignment(argument)
    /\ VariableOf(argument) # << >>
    /\ ~IdentifierGrammar(VariableOf(argument))
    /\ TokensOf(argument) = << >>
    /\ error = ErrInvalidVariable

(***************************************************************************)
(* C9 (SpecLong).  When two or more tokens break the alternation, the     *)
(* error names the zero-based index of the first offending token: an      *)
(* operand expected at an even index, an operator at an odd one.  When no *)
(* token offends and the last token is an operator, the error is the      *)
(* missing operand, without a position.                                   *)
(***************************************************************************)
\* zero-based indices of the tokens that are not what their position asks
Offending(toks) ==
    {i \in 0..(Len(toks) - 1) :
        IF i % 2 = 0 THEN ~PureOperand(toks[i + 1]) ELSE ~OperatorToken(toks[i + 1])}

FirstOffending(toks) ==
    CHOOSE i \in Offending(toks) : \A h \in Offending(toks) : i <= h

ReachesScan(e) ==
    /\ OneAssignment(e)
    /\ IdentifierGrammar(VariableOf(e))
    /\ Len(TokensOf(e)) >= 2

C9_FirstOffendingPosition ==
    (called /\ ReachesScan(argument)) =>
        LET toks == TokensOf(argument)
        IN  IF Offending(toks) # {}
            THEN LET p == FirstOffending(toks)
                 IN  error = IF p % 2 = 0
                             THEN <<"Error: Expected number or variable at position ">> \o Str(p)
                             ELSE <<"Error: Expected operator at position ">> \o Str(p)
            ELSE (Len(toks) % 2 = 0) => error = ErrMissingOperand

(***************************************************************************)
(* C4 (SpecReuse).  Whatever calls came before on the same object, a call *)
(* returns what a newly constructed converter returns for the same input: *)
(* numbering restarts at R1 and nothing of an earlier call is returned.   *)
(***************************************************************************)
C4_SameAsFreshConverter ==
    called =>
        LET fresh == convert_to_rtl(NewConverter, argument)
        IN  /\ instructions = fresh.instructions
            /\ error = fresh.error
            /\ Len(instructions) >= 2 =>
                  Destination(instructions[1]) = R(1)

\* a success on an object whose last call failed after emitting R1 <- operand
C4_Witness ==
    /\ called
    /\ before.register_counter = 2
    /\ Len(before.rtl_instructions) = 1
    /\ error = << >>
    /\ Len(instructions) = 4

(***************************************************************************)
(* C8 as stated (SpecTok).  The token list is what is left after removing *)
(* all whitespace and repeatedly taking the longest prefix that is a run  *)
(* of digits, a run of word characters or one operator character,         *)
(* dropping the characters that match none.                               *)
(***************************************************************************)
Max(a, b) == IF a >= b THEN a ELSE b

\* the length of the longest prefix of s that is a run of digits
DigitPrefix(s) ==
    CHOOSE n \in 0..Len(s) :
        /\ \A k \in 1..n : IsDecimal(s[k])
        /\ n = Len(s) \/ ~IsDecimal(s[n + 1])

\* the length of the longest prefix of s that is a run of word characters
WordPrefix(s) ==
    CHOOSE n \in 0..Len(s) :
        /\ \A k \in 1..n : IsWord(s[k])
        /\ n = Len(s) \/ ~IsWord(s[n + 1])

RECURSIVE LongestPrefixTokens(_)
LongestPrefixTokens(s) ==
    IF s = << >> THEN << >>
    ELSE LET n == Max(Max(DigitPrefix(s), WordPrefix(s)),
                      IF Head(s) \in OperatorChars THEN 1 ELSE 0)
         IN  IF n = 0 THEN LongestPrefixTokens(Tail(s))
             ELSE <<SubSeq(s, 1, n)>> \o LongestPrefixTokens(SubSeq(s, n + 1, Len(s)))

NotWhitespace(c) == ~IsSpace(c)

C8_Original_LongestPrefix ==
    called => tokens = LongestPrefixTokens(SelectSeq(RhsOf(argument), NotWhitespace))

(***************************************************************************)
(* C8 amended (SpecTok).  Only U+0020 is removed from the trimmed         *)
(* right-hand side.  Every operator character is a token.  Every maximal  *)
(* run of word characters gives its leading digits as one token and what  *)
(* follows them as another (a run that starts with a non-digit is one     *)
(* token).  Every other character is dropped and separates tokens.        *)
(***************************************************************************)
NotSpace(c) == c # Space

\* first index of the maximal word run that holds index i
RunStart(s, i) ==
    CHOOSE b \in 1..i :
        /\ \A k \in b..i : IsWord(s[k])
        /\ b = 1 \/ ~IsWord(s[b - 1])

IsTokenStart(s, i) ==
    \/ s[i] \in OperatorChars
    \/ /\ IsWord(s[i])
       /\ LET b == RunStart(s, i)
          IN  \/ i = b
              \/ /\ ~IsDecimal(s[i])
                 /\ \A k \in b..(i - 1) : IsDecimal(s[k])

TokenEnd(s, i) ==
    IF s[i] \in OperatorChars THEN i
    ELSE CHOOSE e \in i..Len(s) :
            /\ \A k \in (i + 1)..e : IsWord(s[k]) /\ ~IsTokenStart(s, k)
            /\ e = Len(s) \/ ~IsWord(s[e + 1]) \/ IsTokenStart(s, e + 1)

PositionalTokens(s) ==
    LET starts == {i \in 1..Len(s) : IsTokenStart(s, i)}
        nth(n) == CHOOSE i \in starts : Cardinality({h \in starts : h < i}) = n - 1
    IN  [n \in 1..Cardinality(starts) |-> SubSeq(s, nth(n), TokenEnd(s, nth(n)))]

C8_OrderedAlternatives ==
    called => tokens = PositionalTokens(SelectSeq(Strip(RhsOf(argument)), NotSpace))

\* a run led by the digit U+0663, a tab between word characters and a dropped
\* character: the right-hand side is U+0663, U+00E9, U+0009, "a", "."
C8_Witness ==
    /\ called
    /\ RhsOf(argument) = <<1635, 233, 9>> \o Text(<<"a", ".">>)
    /\ tokens = << <<1635>>, <<233>>, Text(<<"a">>) >>

(***************************************************************************)
(* C10 as stated (SpecConc).  When the steps of two calls interleave, the *)
(* calls made through the same object included, each call returns what it *)
(* returns when run alone.                                                *)
(***************************************************************************)
ReturnsAsAlone(t) ==
    LET alone == convert_to_rtl(NewConverter, calls[t].expression)
    IN  /\ ReturnedInstructions(t) = alone.instructions
        /\ calls[t].error = alone.error

C10_Original_CallLocalState ==
    \A t \in Threads : calls[t].pc = "done" => ReturnsAsAlone(t)

(***************************************************************************)
(* C10 amended (SpecConc).  The counter and the buffer are attributes of  *)
(* the converter object.  When the steps of two calls interleave and the  *)
(* calls are made through different objects, neither reads or writes the  *)
(* other's counter or buffer, and each returns what it returns alone.     *)
(***************************************************************************)
C10_DistinctObjectsIndependent ==
    \A t \in Threads :
        (/\ calls[t].pc = "done"
         /\ \A u \in Threads \ {t} : calls[u].self # calls[t].self)
            => /\ ReturnsAsAlone(t)
               /\ calls[t].returned # EmptyLiteral =>
                     \A u \in Threads \ {t} :
                        /\ calls[u].list_read # calls[t].returned
                        /\ calls[u].self # NoObject =>
                              objects[calls[u].self].rtl_instructions # calls[t].returned

\* two overlapping calls on different objects, both returning a fold
C10_Witness ==
    /\ \A t \in Threads :
          /\ calls[t].pc = "done"
          /\ calls[t].overlapped
          /\ Len(ReturnedInstructions(t)) = 4
    /\ calls["t1"].self # calls["t2"].self

=============================================================================
